---- MODULE Spec2Model ----
(***************************************************************************)
(* Model of touchdown (src/src/main.rs): a static site generator that      *)
(* walks a source directory, renders *.html.jinja pages and copies every   *)
(* other file into <source>/dist.                                          *)
(*                                                                         *)
(* A file name is a sequence of one-character strings, a path is a         *)
(* sequence of file names relative to the source directory, and the disk   *)
(* is one function fs from the paths that exist to their nodes; the output *)
(* directory is the path <<"dist">> of that same disk.                     *)
(***************************************************************************)
EXTENDS Integers, Sequences, FiniteSets, TLC

VARIABLES
    fs,           \* the disk: path -> node
    fs0,          \* the disk before the first run (the source tree)
    pc,           \* position in main/generate_site
    input_files,  \* result of get_input_files: sequence of [tag, path]
    idx,          \* number of input_files the loop of generate_site has completed
    err,          \* first error of the current run, "none" if there is none
    log,          \* source paths read by materialization actions, in order
    run,          \* 1 for the first run of the program, 2 for the second
    first,        \* outcome of the first run, kept for comparison
    src_dir,      \* to_output_path check: source root
    input_path,   \* to_output_path check: the input path
    output_path   \* to_output_path check: the result

vars == <<fs, fs0, pc, input_files, idx, err, log, run, first,
          src_dir, input_path, output_path>>

----------------------------------------------------------------------------
(* Bounds of the model *)

\* nodes of the source tree below the source directory (full runs)
MaxNodes == 2
\* nesting depth of the source tree
MaxDepth == 3
\* nodes of the source tree for the classifier-only specification
MaxNodesClassify == 2
\* nodes of the source tree for the two-run specifications
MaxNodesTwoRuns == 3
\* nodes of the source tree for the directory-copy specification
MaxNodesCopy == 4
\* path segments of the inputs of to_output_path below the source root
MaxRelLen == 2

----------------------------------------------------------------------------
(* Strings the program names, as character sequences *)

DotGit == <<".", "g", "i", "t">>
Dist == <<"d", "i", "s", "t">>
Tilde == <<"~">>
Underscore == <<"_">>
DotHtmlDotJinja == <<".", "h", "t", "m", "l", ".", "j", "i", "n", "j", "a">>
Jinja == <<"j", "i", "n", "j", "a">>

\* str::starts_with
starts_with(s, prefix) ==
    /\ Len(prefix) <= Len(s)
    /\ SubSeq(s, 1, Len(prefix)) = prefix

\* str::ends_with
ends_with(s, suffix) ==
    /\ Len(suffix) <= Len(s)
    /\ SubSeq(s, Len(s) - Len(suffix) + 1, Len(s)) = suffix

is_page(filename) == ends_with(filename, DotHtmlDotJinja)

must_skip_no_underscore(filename) ==
    \/ starts_with(filename, DotGit)
    \/ filename = Dist
    \/ ends_with(filename, Tilde)

must_skip(filename) ==
    \/ starts_with(filename, DotGit)
    \/ filename = Dist
    \/ ends_with(filename, Tilde)
    \/ starts_with(filename, Underscore)

----------------------------------------------------------------------------
(* std::path *)

Root == <<>>

\* Path::parent of a non-empty path
Parent(p) == SubSeq(p, 1, Len(p) - 1)

\* Path::file_name of a non-empty path
FileName(p) == p[Len(p)]

\* Path::starts_with / the test of Path::strip_prefix
IsPrefix(p, q) == Len(p) <= Len(q) /\ SubSeq(q, 1, Len(p)) = p

\* position of the last "." of a file name, 0 if it has none
LastDot(name) ==
    LET dots == {i \in 1..Len(name) : name[i] = "."}
    IN IF dots = {} THEN 0 ELSE CHOOSE i \in dots : \A j \in dots : j <= i

\* position of the first "." of a file name, 0 if it has none
FirstDot(name) ==
    LET dots == {i \in 1..Len(name) : name[i] = "."}
    IN IF dots = {} THEN 0 ELSE CHOOSE i \in dots : \A j \in dots : i <= j

\* Path::extension of a file name: [some, ext]. None without a "." after the
\* first character (".git" has no extension), and for "..".
Extension(name) ==
    LET d == LastDot(name)
    IN IF d <= 1 \/ name = <<".", ".">>
       THEN [some |-> FALSE, ext |-> <<>>]
       ELSE [some |-> TRUE, ext |-> SubSeq(name, d + 1, Len(name))]

FileStem_first_dot(name) ==
    LET d == FirstDot(name)
    IN IF d <= 1 \/ name = <<".", ".">> THEN name ELSE SubSeq(name, 1, d - 1)

\* Path::file_stem of a file name: the part before the last "."
FileStem(name) ==
    LET d == LastDot(name)
    IN IF d <= 1 \/ name = <<".", ".">> THEN name ELSE SubSeq(name, 1, d - 1)

\* to_output_path: [ok, path]; not ok is Error::StripPrefix
to_output_path(src, output_dir, input) ==
    IF ~IsPrefix(src, input)
    THEN [ok |-> FALSE, path |-> <<>>]
    ELSE LET rel_path == SubSeq(input, Len(src) + 1, Len(input))
             ext == IF rel_path = <<>> THEN [some |-> FALSE, ext |-> <<>>]
                    ELSE Extension(FileName(rel_path))
         IN IF ext.some /\ ext.ext = Jinja
            THEN [ok |-> TRUE,
                  path |-> output_dir \o Parent(rel_path)
                               \o <<FileStem(FileName(rel_path))>>]
            ELSE [ok |-> TRUE, path |-> output_dir \o rel_path]

----------------------------------------------------------------------------
(* The disk *)

\* File contents: the bytes of the source file first stored at path src, as
\* they are (rendered = FALSE) or as the template engine renders them.
NoData == [src |-> <<>>, rendered |-> FALSE]
BytesOf(p) == [src |-> p, rendered |-> FALSE]
Rendered(d) == [src |-> d.src, rendered |-> TRUE]

\* A node: ty is what DirEntry::file_type reports (symlinks not followed),
\* target what the path resolves to: "none" for a dangling symlink, "other"
\* for a symlink to something that is neither a file nor a directory.
DirNode == [ty |-> "dir", target |-> "dir", data |-> NoData]
FileNode(d) == [ty |-> "file", target |-> "file", data |-> d]

NodeKinds ==
    { [ty |-> "file", target |-> "file"],
      [ty |-> "dir", target |-> "dir"],
      [ty |-> "symlink", target |-> "file"],
      [ty |-> "symlink", target |-> "dir"],
      [ty |-> "symlink", target |-> "none"],
      [ty |-> "symlink", target |-> "other"] }

MkNode(k, p) ==
    [ty |-> k.ty, target |-> k.target,
     data |-> IF k.target = "file" THEN BytesOf(p) ELSE NoData]

\* p can hold entries: a directory, or a symlink to one
IsContainer(f, p) == p \in DOMAIN f /\ f[p].target = "dir"

Children(f, dir) == {p \in DOMAIN f : Len(p) = Len(dir) + 1 /\ IsPrefix(dir, p)}

EmptyDisk == (Root :> DirNode)

\* the elements of S in some order
RECURSIVE SetToSeq(_)
SetToSeq(S) ==
    IF S = {} THEN <<>>
    ELSE LET x == CHOOSE y \in S : TRUE IN <<x>> \o SetToSeq(S \ {x})

\* Path::try_exists: "true", "false", or "err" (an ancestor is not a directory)
try_exists(f, p) ==
    IF \E k \in 0..(Len(p) - 1) :
           /\ SubSeq(p, 1, k) \in DOMAIN f
           /\ f[SubSeq(p, 1, k)].target \in {"file", "other"}
    THEN "err"
    ELSE IF p \in DOMAIN f /\ f[p].target # "none" THEN "true" ELSE "false"

\* fs::create_dir: a single level; the parent must be a directory
create_dir(f, p) ==
    IF p # Root /\ p \notin DOMAIN f /\ IsContainer(f, Parent(p))
    THEN [ok |-> TRUE, fs |-> f @@ (p :> DirNode)]
    ELSE [ok |-> FALSE, fs |-> f]

\* writing a regular file (File::create, and the destination of fs::copy):
\* created in an existing directory, or truncated if it is a file already
WriteFile(f, p, d) ==
    IF p # Root /\ IsContainer(f, Parent(p))
    THEN IF p \notin DOMAIN f
         THEN [ok |-> TRUE, fs |-> f @@ (p :> FileNode(d))]
         ELSE IF f[p].target = "file"
              THEN [ok |-> TRUE, fs |-> [f EXCEPT ![p].data = d]]
              ELSE [ok |-> FALSE, fs |-> f]
    ELSE [ok |-> FALSE, fs |-> f]

\* fs::copy: the source must resolve to a regular file
fs_copy(f, from, to) ==
    IF from \in DOMAIN f /\ f[from].target = "file"
    THEN WriteFile(f, to, f[from].data)
    ELSE [ok |-> FALSE, fs |-> f]

ensure_dir(f, dir) ==
    CASE try_exists(f, dir) = "true" -> [ok |-> TRUE, fs |-> f]
      [] try_exists(f, dir) = "false" -> create_dir(f, dir)
      [] OTHER -> [ok |-> FALSE, fs |-> f]

\* ensure_parent_dir: Error::Unexpected for a path without parent
ensure_parent_dir(f, path) ==
    IF path = Root THEN [ok |-> FALSE, fs |-> f] ELSE ensure_dir(f, Parent(path))

----------------------------------------------------------------------------
(* Directory listings *)

RECURSIVE Perms(_)
\* every order of the elements of S
Perms(S) ==
    IF S = {} THEN {<<>>}
    ELSE UNION { { <<x>> \o t : t \in Perms(S \ {x}) } : x \in S }

\* The entries of the source tree: everything but the output directory and
\* what is below it.
SourcePaths(f) == {p \in DOMAIN f : p # Root /\ p[1] # Dist}

\* what lies below dir
Below(f, dir) == {p \in DOMAIN f : Len(p) > Len(dir) /\ IsPrefix(dir, p)}

\* fs::read_dir returns the entries of a directory in an order the platform
\* chooses. ord is one such choice: an order of all source entries below the
\* directory a walk starts from; the output directory, which every walk of
\* the source skips, is listed first.
Orders(f, dir) == Perms(Below(f, dir) \cap SourcePaths(f))

read_dir(f, dir, ord) ==
    IF IsContainer(f, dir)
    THEN LET here == Children(f, dir)
             ranked == {ord[i] : i \in 1..Len(ord)}
         IN [ok |-> TRUE,
             entries |-> SetToSeq(here \ ranked)
                            \o SelectSeq(ord, LAMBDA q : q \in here)]
    ELSE [ok |-> FALSE, entries |-> <<>>]

----------------------------------------------------------------------------
(* get_input_files *)

Page(path) == [tag |-> "Page", path |-> path]
File(path) == [tag |-> "File", path |-> path]
Dir(path) == [tag |-> "Dir", path |-> path]

entry_class_type_first(f, path) ==
    LET filename == FileName(path)
    IN IF must_skip(filename) THEN "skip"
       ELSE IF f[path].ty = "dir" THEN "recurse"
       ELSE IF is_page(filename) THEN "page"
       ELSE IF f[path].ty = "file" THEN "file"
       ELSE IF f[path].target = "none" THEN "io_error"
       ELSE IF f[path].target = "file" THEN "file"
       ELSE IF f[path].target = "dir" THEN "dir"
       ELSE "panic"

\* What the loop body of get_input_files decides for one entry.
entry_class(f, path) ==
    LET filename == FileName(path)
    IN IF must_skip(filename) THEN "skip"
       ELSE IF is_page(filename) THEN "page"
       ELSE IF f[path].ty = "dir" THEN "recurse"
       ELSE IF f[path].ty = "file" THEN "file"
       \* a symlink: canonicalize fails on a dangling one
       ELSE IF f[path].target = "none" THEN "io_error"
       ELSE IF f[path].target = "file" THEN "file"
       ELSE IF f[path].target = "dir" THEN "dir"
       ELSE "panic"

entry_files_dir_and_nested(class, path, nested) ==
    CASE class = "page" -> <<Page(path)>>
      [] class = "recurse" -> <<Dir(path)>> \o nested
      [] class = "file" -> <<File(path)>>
      [] class = "dir" -> <<Dir(path)>>
      [] OTHER -> <<>>

entry_files_dir_only(class, path, nested) ==
    CASE class = "page" -> <<Page(path)>>
      [] class = "recurse" -> <<Dir(path)>>
      [] class = "file" -> <<File(path)>>
      [] class = "dir" -> <<Dir(path)>>
      [] OTHER -> <<>>

\* What the loop body pushes to result for one entry; nested is the result
\* of the recursive call on a directory.
entry_files(class, path, nested) ==
    CASE class = "page" -> <<Page(path)>>
      [] class = "recurse" -> nested
      [] class = "file" -> <<File(path)>>
      [] class = "dir" -> <<Dir(path)>>
      [] OTHER -> <<>>

RECURSIVE get_input_files(_, _, _)
RECURSIVE classify_entries(_, _, _)

\* the for loop of get_input_files over the entries still to visit
classify_entries(f, entries, ord) ==
    IF entries = <<>> THEN [st |-> "ok", files |-> <<>>]
    ELSE LET path == Head(entries)
             class == entry_class(f, path)
         IN IF class = "io_error" THEN [st |-> "Io", files |-> <<>>]
            ELSE IF class = "panic" THEN [st |-> "panic", files |-> <<>>]
            ELSE LET nested == IF class = "recurse"
                               THEN get_input_files(f, path, ord)
                               ELSE [st |-> "ok", files |-> <<>>]
                 IN IF nested.st # "ok" THEN nested
                    ELSE LET rest == classify_entries(f, Tail(entries), ord)
                         IN IF rest.st # "ok" THEN rest
                            ELSE [st |-> "ok",
                                  files |-> entry_files(class, path, nested.files)
                                                \o rest.files]

\* get_input_files: [st, files], st the error where it is not "ok"
get_input_files(f, base_dir, ord) ==
    LET listing == read_dir(f, base_dir, ord)
    IN IF ~listing.ok THEN [st |-> "Io", files |-> <<>>]
       ELSE classify_entries(f, listing.entries, ord)

----------------------------------------------------------------------------
(* The materializer *)

\* Environment::get_template through path_loader: the template must be a
\* readable file
get_template(f, tmpl_path) ==
    tmpl_path \in DOMAIN f /\ f[tmpl_path].target = "file"

\* render_page: [ok, fs, err, log]
render_page(f, path, output_dir, src) ==
    LET out == to_output_path(src, output_dir, path)
        made == ensure_parent_dir(f, out.path)
        created == WriteFile(made.fs, out.path, NoData)
        tmpl_path == SubSeq(path, Len(src) + 1, Len(path))
    IN IF ~out.ok THEN [ok |-> FALSE, fs |-> f, err |-> "StripPrefix", log |-> <<>>]
       ELSE IF ~made.ok
       THEN [ok |-> FALSE, fs |-> made.fs, log |-> <<>>,
             err |-> IF out.path = Root THEN "Unexpected" ELSE "Io"]
       ELSE IF ~created.ok
       THEN [ok |-> FALSE, fs |-> created.fs, err |-> "Io", log |-> <<>>]
       ELSE IF ~get_template(created.fs, src \o tmpl_path)
       THEN [ok |-> FALSE, fs |-> created.fs, err |-> "Minijinja", log |-> <<path>>]
       ELSE [ok |-> TRUE, err |-> "none", log |-> <<path>>,
             fs |-> WriteFile(created.fs, out.path,
                              Rendered(created.fs[path].data)).fs]

\* copy_file: [ok, fs, err, log]
copy_file(f, path, output_dir, src) ==
    LET dst == to_output_path(src, output_dir, path)
        made == ensure_parent_dir(f, dst.path)
        copied == fs_copy(made.fs, path, dst.path)
    IN IF ~dst.ok THEN [ok |-> FALSE, fs |-> f, err |-> "StripPrefix", log |-> <<>>]
       ELSE IF ~made.ok
       THEN [ok |-> FALSE, fs |-> made.fs, log |-> <<>>,
             err |-> IF dst.path = Root THEN "Unexpected" ELSE "Io"]
       ELSE [ok |-> copied.ok, fs |-> copied.fs, log |-> <<path>>,
             err |-> IF copied.ok THEN "none" ELSE "Io"]

RECURSIVE copy_dir_recursive(_, _, _, _, _)
RECURSIVE copy_entries(_, _, _, _, _)

\* the for loop of copy_dir_recursive over the entries still to visit
copy_entries(f, entries, dst, src, ord) ==
    IF entries = <<>> THEN [ok |-> TRUE, fs |-> f, err |-> "none", log |-> <<>>]
    ELSE LET entry == Head(entries)
             one == IF f[entry].ty = "dir"
                    THEN copy_dir_recursive(f, entry, dst, src, ord)
                    ELSE LET c == fs_copy(f, entry, dst \o <<FileName(entry)>>)
                         IN [ok |-> c.ok, fs |-> c.fs, log |-> <<entry>>,
                             err |-> IF c.ok THEN "none" ELSE "Io"]
         IN IF ~one.ok THEN one
            ELSE LET rest == copy_entries(one.fs, Tail(entries), dst, src, ord)
                 IN [ok |-> rest.ok, fs |-> rest.fs, err |-> rest.err,
                     log |-> one.log \o rest.log]

\* copy_dir_recursive: [ok, fs, err, log]
copy_dir_recursive(f, path, output_dir, src, ord) ==
    LET dst == to_output_path(src, output_dir, path)
        made == ensure_parent_dir(f, dst.path)
        listing == read_dir(made.fs, path, ord)
    IN IF ~dst.ok THEN [ok |-> FALSE, fs |-> f, err |-> "StripPrefix", log |-> <<>>]
       ELSE IF ~made.ok
       THEN [ok |-> FALSE, fs |-> made.fs, log |-> <<>>,
             err |-> IF dst.path = Root THEN "Unexpected" ELSE "Io"]
       ELSE IF ~listing.ok
       THEN [ok |-> FALSE, fs |-> made.fs, err |-> "Io", log |-> <<>>]
       ELSE copy_entries(made.fs, listing.entries, dst.path, src, ord)

----------------------------------------------------------------------------
(* generate_site and main, one action per step *)

\* generate_site is given the source directory itself
SrcDir == Root
OutputDir == SrcDir \o <<Dist>>

\* an I/O error of the platform that the disk of the model does not explain
EnvFault == "Io(env)"

NoFirst == [set |-> FALSE, ok |-> FALSE, fs |-> EmptyDisk, files |-> <<>>]

after_entry_keep_going(ok) == "loop"

\* the ? after each materialization: an error leaves generate_site
after_entry(ok) == IF ok THEN "loop" ELSE "failed"

\* ensure_dir(&output_dir)?
EnsureOutputDir ==
    /\ pc = "start"
    /\ \E io_ok \in BOOLEAN :
          LET made == ensure_dir(fs, OutputDir)
          IN IF io_ok /\ made.ok
             THEN /\ fs' = made.fs
                  /\ pc' = "classify"
                  /\ err' = err
             ELSE /\ fs' = fs
                  /\ pc' = "failed"
                  /\ err' = IF io_ok THEN "Io" ELSE EnvFault
    /\ fs0' = IF run = 1 THEN fs ELSE fs0
    /\ UNCHANGED <<input_files, idx, log, run, first,
                   src_dir, input_path, output_path>>

\* let input_files = get_input_files(src_dir)?
Classify ==
    /\ pc = "classify"
    /\ \E io_ok \in BOOLEAN :
          IF ~io_ok
          THEN /\ pc' = "failed"
               /\ err' = EnvFault
               /\ input_files' = <<>>
          ELSE \E ord \in Orders(fs, SrcDir) :
                  LET r == get_input_files(fs, SrcDir, ord)
                  IN IF r.st = "ok"
                     THEN /\ pc' = "loop"
                          /\ err' = err
                          /\ input_files' = r.files
                     ELSE /\ pc' = IF r.st = "panic" THEN "panicked" ELSE "failed"
                          /\ err' = r.st
                          /\ input_files' = <<>>
    /\ UNCHANGED <<fs, fs0, idx, log, run, first, src_dir, input_path, output_path>>

\* the outcome r of one arm of the match in the loop of generate_site
Materialized(r) ==
    /\ fs' = r.fs
    /\ log' = log \o r.log
    /\ pc' = after_entry(r.ok)
    /\ idx' = IF pc' = "loop" THEN idx + 1 ELSE idx
    /\ err' = IF ~r.ok /\ err = "none" THEN r.err ELSE err
    /\ UNCHANGED <<fs0, input_files, run, first, src_dir, input_path, output_path>>

Faulted == [ok |-> FALSE, fs |-> fs, err |-> EnvFault, log |-> <<>>]

\* InputFile::Page(path) => render_page(&env, &path, &output_dir, &src_dir)?
RenderPage ==
    /\ pc = "loop"
    /\ idx < Len(input_files)
    /\ input_files[idx + 1].tag = "Page"
    /\ \E io_ok \in BOOLEAN :
          Materialized(IF io_ok
                       THEN render_page(fs, input_files[idx + 1].path, OutputDir, SrcDir)
                       ELSE Faulted)

\* InputFile::File(path) => copy_file(&path, &output_dir, &src_dir)?
CopyFile ==
    /\ pc = "loop"
    /\ idx < Len(input_files)
    /\ input_files[idx + 1].tag = "File"
    /\ \E io_ok \in BOOLEAN :
          Materialized(IF io_ok
                       THEN copy_file(fs, input_files[idx + 1].path, OutputDir, SrcDir)
                       ELSE Faulted)

\* InputFile::Dir(path) => copy_dir_recursive(&path, &output_dir, &src_dir)?
CopyDir ==
    /\ pc = "loop"
    /\ idx < Len(input_files)
    /\ input_files[idx + 1].tag = "Dir"
    /\ \E io_ok \in BOOLEAN :
          IF ~io_ok
          THEN Materialized(Faulted)
          ELSE \E ord \in Orders(fs, input_files[idx + 1].path) :
                  Materialized(copy_dir_recursive(fs, input_files[idx + 1].path,
                                                  OutputDir, SrcDir, ord))

\* Ok(()) of generate_site, and process::exit(0) of main
Exit ==
    /\ pc = "loop"
    /\ idx = Len(input_files)
    /\ pc' = "done"
    /\ UNCHANGED <<fs, fs0, input_files, idx, err, log, run, first,
                   src_dir, input_path, output_path>>

\* The program is run a second time on the disk the first run left.
Rerun ==
    /\ run = 1
    /\ pc = "done"
    /\ run' = 2
    /\ first' = [set |-> TRUE, ok |-> TRUE, fs |-> fs, files |-> input_files]
    /\ pc' = "start"
    /\ input_files' = <<>>
    /\ idx' = 0
    /\ err' = "none"
    /\ log' = <<>>
    /\ UNCHANGED <<fs, fs0, src_dir, input_path, output_path>>

\* The program is run a second time on the disk the first run started from,
\* to compare two runs that the platform lists in different orders.
RunOnSameSource ==
    /\ run = 1
    /\ pc \in {"done", "failed", "panicked"}
    /\ err # EnvFault
    /\ run' = 2
    /\ first' = [set |-> TRUE, ok |-> (pc = "done"), fs |-> fs, files |-> input_files]
    /\ fs' = fs0
    /\ pc' = "start"
    /\ input_files' = <<>>
    /\ idx' = 0
    /\ err' = "none"
    /\ log' = <<>>
    /\ UNCHANGED <<fs0, src_dir, input_path, output_path>>

\* to_output_path applied to the input drawn by InitPath
MapPath ==
    /\ pc = "path"
    /\ output_path' = to_output_path(src_dir, src_dir \o <<Dist>>, input_path)
    /\ pc' = "mapped"
    /\ UNCHANGED <<fs, fs0, input_files, idx, err, log, run, first,
                   src_dir, input_path>>

----------------------------------------------------------------------------
(* File names and initial states *)

Name_a == <<"a">>
Name_a_jinja == <<"a", ".">> \o Jinja
Name_a_html_jinja == <<"a">> \o DotHtmlDotJinja
Name_underscore_a == <<"_", "a">>
Name_underscore_page == <<"_", "a">> \o DotHtmlDotJinja
Name_git == <<".", "g", "i", "t">>
Name_backup == <<"a", "~">>
Name_dot_jinja == <<".">> \o Jinja
Name_a_html == <<"a", ".", "h", "t", "m", "l">>
Name_site == <<"s", "i", "t", "e">>

\* names for the classifier: one per clause of must_skip, a page, a partial
\* named like a page, and two others
ClassifyNames ==
    {Name_a, Name_a_jinja, Name_a_html_jinja, Name_underscore_a,
     Name_underscore_page, Name_git, Name_backup, Dist}

\* names for full runs
RunNames == {Name_a, Name_a_jinja, Name_a_html_jinja, Name_underscore_a}

\* names for two runs in a row
TwoRunNames == {Name_a, Name_a_jinja, Name_a_html_jinja}

\* names for the directory copy
CopyNames == {Name_a, Name_a_jinja}

\* names for to_output_path
PathNames ==
    {Name_a, Name_a_jinja, Name_a_html_jinja, Name_underscore_a, Name_git,
     Name_dot_jinja, Name_a_html, Jinja}

\* Before the program starts, the source directory is empty and has no
\* output directory; CreateEntry fills it.
Init ==
    /\ fs = EmptyDisk
    /\ fs0 = EmptyDisk
    /\ pc = "start"
    /\ input_files = <<>>
    /\ idx = 0
    /\ err = "none"
    /\ log = <<>>
    /\ run = 1
    /\ first = NoFirst
    /\ src_dir = Root
    /\ input_path = Root
    /\ output_path = [ok |-> FALSE, path |-> Root]

\* The user puts one more entry into the source tree before the program is
\* started: any kind of node, named from names, in the source directory or
\* in a directory (or symlink to one) below it. The output directory is the
\* program's to create.
CreateEntry(names, max_nodes) ==
    /\ pc = "start"
    /\ run = 1
    /\ Cardinality(SourcePaths(fs)) < max_nodes
    /\ \E p \in DOMAIN fs : \E n \in names : \E k \in NodeKinds :
          /\ IsContainer(fs, p)
          /\ Len(p) < MaxDepth
          /\ Append(p, n) \notin DOMAIN fs
          /\ Append(p, n) # OutputDir
          /\ fs' = fs @@ (Append(p, n) :> MkNode(k, Append(p, n)))
    /\ UNCHANGED <<fs0, pc, input_files, idx, err, log, run, first,
                   src_dir, input_path, output_path>>

CreateEntryRun == CreateEntry(RunNames, MaxNodes)
CreateEntryClassify == CreateEntry(ClassifyNames, MaxNodesClassify)
CreateEntryTwoRuns == CreateEntry(TwoRunNames, MaxNodesTwoRuns)
CreateEntryCopy == CreateEntry(CopyNames, MaxNodesCopy)

RECURSIVE PathsUpTo(_, _)
\* the paths of 1..n segments named from names
PathsUpTo(names, n) ==
    IF n = 0 THEN {}
    ELSE {<<x>> : x \in names}
            \cup {Append(p, x) : p \in PathsUpTo(names, n - 1), x \in names}

InitPath ==
    /\ src_dir \in {Root, <<Name_site>>}
    /\ input_path \in PathsUpTo(PathNames, MaxRelLen)
                        \cup {src_dir \o p : p \in PathsUpTo(PathNames, MaxRelLen)}
    /\ output_path = [ok |-> FALSE, path |-> Root]
    /\ pc = "path"
    /\ fs = EmptyDisk
    /\ fs0 = EmptyDisk
    /\ input_files = <<>>
    /\ idx = 0
    /\ err = "none"
    /\ log = <<>>
    /\ run = 1
    /\ first = NoFirst

Generate == EnsureOutputDir \/ Classify \/ RenderPage \/ CopyFile \/ CopyDir \/ Exit
Next == CreateEntryRun \/ Generate
NextClassify == CreateEntryClassify \/ EnsureOutputDir \/ Classify
NextRerun == CreateEntryTwoRuns \/ Generate \/ Rerun
NextOrder == CreateEntryTwoRuns \/ Generate \/ RunOnSameSource
NextCopy == CreateEntryCopy \/ EnsureOutputDir \/ Classify \/ CopyFile \/ CopyDir \/ Exit
NextPath == MapPath

Spec == Init /\ [][Next]_vars
SpecClassify == Init /\ [][NextClassify]_vars
SpecRerun == Init /\ [][NextRerun]_vars
SpecOrder == Init /\ [][NextOrder]_vars
SpecCopy == Init /\ [][NextCopy]_vars
SpecPath == InitPath /\ [][NextPath]_vars

----------------------------------------------------------------------------
(* Vocabulary of the properties, stated on names and paths directly *)

\* the file name matches the skip rule: it starts with ".git", is "dist",
\* ends with "~" or starts with "_"
SkipMatched(n) ==
    \/ Len(n) >= 4 /\ n[1] = "." /\ n[2] = "g" /\ n[3] = "i" /\ n[4] = "t"
    \/ n = <<"d", "i", "s", "t">>
    \/ Len(n) >= 1 /\ n[Len(n)] = "~"
    \/ Len(n) >= 1 /\ n[1] = "_"

\* the file name ends with ".html.jinja"
PageNamed(n) ==
    /\ Len(n) >= 11
    /\ \A k \in 1..11 : n[Len(n) - 11 + k] = DotHtmlDotJinja[k]

\* the file name has the extension "jinja": a non-empty stem, then ".jinja"
HasJinjaExtension(n) ==
    /\ Len(n) > 6
    /\ n[Len(n) - 5] = "."
    /\ \A k \in 1..5 : n[Len(n) - 5 + k] = Jinja[k]

\* the classifier reaches p: every directory above it is a real directory
\* that is neither skipped nor taken for a page
Walked(f, p) ==
    /\ p \in SourcePaths(f)
    /\ \A k \in 1..(Len(p) - 1) :
          LET q == SubSeq(p, 1, k)
          IN f[q].ty = "dir" /\ ~SkipMatched(FileName(q)) /\ ~PageNamed(FileName(q))

Classified == pc \in {"loop", "done"} \/ (pc = "failed" /\ input_files # <<>>)

EntryPaths(tag) ==
    {input_files[i].path : i \in {j \in 1..Len(input_files) : input_files[j].tag = tag}}

AllEntryPaths == {input_files[i].path : i \in 1..Len(input_files)}

----------------------------------------------------------------------------
(* C1 *)

\* C1: no entry returned by get_input_files has a file name that matches the
\* skip rule, whatever its type on disk, and no segment of a returned path
\* matches it either.
C1_NoSkippedEntry ==
    pc = "loop" =>
        \A i \in 1..Len(input_files) :
            \A k \in 1..Len(input_files[i].path) :
                ~SkipMatched(input_files[i].path[k])

\* a classification that met a skip-named symlink inside a walked directory
C1_Witness ==
    /\ pc = "loop"
    /\ \E p \in SourcePaths(fs) :
          /\ Len(p) = 2
          /\ Walked(fs, p)
          /\ SkipMatched(FileName(p))
          /\ fs[p].ty = "symlink"

----------------------------------------------------------------------------
(* C3 *)

\* C3: for an input path under the source root, to_output_path drops exactly
\* a trailing ".jinja" of the last segment when that segment has the
\* extension "jinja", and maps every other path to output_root / rel.
C3_OutputPath ==
    (pc = "mapped" /\ IsPrefix(src_dir, input_path) /\ input_path # src_dir) =>
        LET rel == SubSeq(input_path, Len(src_dir) + 1, Len(input_path))
            name == rel[Len(rel)]
            out == src_dir \o <<Dist>>
        IN /\ output_path.ok
           /\ IF HasJinjaExtension(name)
              THEN /\ Len(output_path.path) = Len(out) + Len(rel)
                   /\ SubSeq(output_path.path, 1, Len(out) + Len(rel) - 1)
                         = out \o SubSeq(rel, 1, Len(rel) - 1)
                   /\ output_path.path[Len(out) + Len(rel)] \o <<".">> \o Jinja = name
              ELSE output_path.path = out \o rel

\* a/a.html.jinja below a source root was mapped
C3_Witness ==
    /\ pc = "mapped"
    /\ src_dir # Root
    /\ input_path = src_dir \o <<Name_a, Name_a_html_jinja>>
    /\ output_path = [ok |-> TRUE, path |-> src_dir \o <<Dist, Name_a, Name_a_html>>]

----------------------------------------------------------------------------
(* C4 *)

\* C4: every entry the classifier reaches whose name ends with ".html.jinja"
\* and is not skipped is returned as Page with its own path, also when it is
\* a directory or a symlink; it is not returned as File or Dir, and nothing
\* below it is returned.
C4_PageWhateverType ==
    pc = "loop" =>
        \A p \in SourcePaths(fs) :
            (Walked(fs, p) /\ PageNamed(FileName(p)) /\ ~SkipMatched(FileName(p))) =>
                /\ p \in EntryPaths("Page")
                /\ p \notin EntryPaths("File") \cup EntryPaths("Dir")
                /\ \A q \in AllEntryPaths : q = p \/ ~IsPrefix(p, q)

\* a directory named like a page, with something in it, was classified
C4_Witness ==
    /\ pc = "loop"
    /\ \E p \in SourcePaths(fs) :
          /\ PageNamed(FileName(p))
          /\ fs[p].ty = "dir"
          /\ Children(fs, p) # {}
          /\ p \in EntryPaths("Page")

----------------------------------------------------------------------------
(* C5 *)

\* a directory the classifier reaches, not skipped and not named like a
\* page, in which every entry matches the skip rule (or that is empty)
OnlySkippedInside(f, p) ==
    /\ Walked(f, p)
    /\ f[p].target = "dir"
    /\ ~SkipMatched(FileName(p))
    /\ ~PageNamed(FileName(p))
    /\ \A c \in Children(f, p) : SkipMatched(FileName(c))

\* a skipped directory is left out with everything below it
SkippedDirOmitted ==
    \A p \in SourcePaths(fs) :
        (Walked(fs, p) /\ SkipMatched(FileName(p))) =>
            \A q \in AllEntryPaths : ~IsPrefix(p, q)

----------------------------------------------------------------------------
(* C6 *)

----------------------------------------------------------------------------
(* C7 *)

\* C7: once a step of generate_site has returned an error, nothing more is
\* written or read for materialization in that run; and no step removes what
\* an earlier step wrote.
C7_FailFast ==
    [][ /\ err # "none" => (fs' = fs /\ log' = log /\ idx' = idx)
        /\ \A p \in DOMAIN fs : p \in DOMAIN fs' ]_vars

\* the run stopped at an entry that failed, with entries left unprocessed
C7_Witness ==
    /\ pc = "failed"
    /\ err \in {"Io", "Minijinja"}
    /\ idx + 1 < Len(input_files)

----------------------------------------------------------------------------
(* C10 *)

\* C10: the entries returned by get_input_files map to pairwise distinct
\* output paths, and after a successful run the destination of every File
\* entry holds the bytes of that entry.
C10_DistinctDestinations ==
    Classified =>
        /\ \A i, j \in 1..Len(input_files) :
              i # j =>
                 to_output_path(SrcDir, OutputDir, input_files[i].path).path
                    # to_output_path(SrcDir, OutputDir, input_files[j].path).path
        /\ pc = "done" =>
              \A p \in EntryPaths("File") :
                 LET dst == to_output_path(SrcDir, OutputDir, p).path
                 IN dst \in DOMAIN fs /\ fs[dst].data = fs[p].data

----------------------------------------------------------------------------
(* C2 *)

\* C2: after copy_dir_recursive has succeeded on the Dir entry at r, every
\* file or directory at p below r exists at output_root/r/p with the same
\* type and, for a file, the same bytes.
C2_DirMirrored ==
    \A i \in 1..Len(input_files) :
        (i <= idx /\ input_files[i].tag = "Dir") =>
            \A q \in Below(fs, input_files[i].path) :
                LET o == OutputDir \o q
                IN /\ o \in DOMAIN fs
                   /\ fs[o].target = fs[q].target
                   /\ fs[q].target = "file" => fs[o].data = fs[q].data

----------------------------------------------------------------------------
(* C8 *)

RunEnded == pc \in {"done", "failed", "panicked"} /\ err # EnvFault

\* C8: when a run has succeeded and the program is run again on the disk it
\* left, the second run succeeds, takes nothing of the output for input, and
\* leaves the same output tree.
C8_RerunIdempotent ==
    /\ run = 2 => \A p \in AllEntryPaths : p[1] # Dist
    /\ (run = 2 /\ RunEnded) => (pc = "done" /\ fs = first.fs)

\* C8 for a second run whose listings come in the order of the first
C8_RerunSameOrder ==
    (run = 2 /\ RunEnded /\ input_files = first.files) =>
        (pc = "done" /\ fs = first.fs)

----------------------------------------------------------------------------
(* C9 *)

\* when an action runs, every directory above the parent of its destination
\* exists in the output
C9_AncestorsExist ==
    (pc = "loop" /\ idx < Len(input_files)) =>
        LET dst == to_output_path(SrcDir, OutputDir, input_files[idx + 1].path).path
        IN \A k \in 1..(Len(dst) - 2) : SubSeq(dst, 1, k) \in DOMAIN fs

\* two runs on the same source, listed in any two orders, both succeed and
\* leave the same disk, or both fail
C9_SameOutcome ==
    (run = 2 /\ first.set /\ RunEnded) =>
        /\ first.ok <=> pc = "done"
        /\ pc = "done" => fs = first.fs

\* C9: the outcome of generate_site does not depend on the order of the
\* directory listings; in particular every ancestor of the parent directory
\* an action creates exists already when the action runs.
C9_OrderIndependent == C9_AncestorsExist /\ C9_SameOutcome

====
